---------------------------- MODULE Spec2Model ----------------------------
(***************************************************************************)
(* Model of repo-license-summary.py: the SPDX license extractor, the       *)
(* ignore list, the File / Subtree / SuffixGlob entries with their         *)
(* bottom-up license aggregation, the suffix grouping engine, the display  *)
(* renderer and the find_files driver.                                     *)
(*                                                                         *)
(* Strings (file names, license tokens, glob patterns) are sequences of    *)
(* one-character strings, so that fnmatch, removesuffix, pathlib's suffix  *)
(* and Python's string comparison are computed character by character.     *)
(* A line of a file is the outcome of line 97's regular expression on it:  *)
(* whether the SPDX marker is found and, if so, the captured text after    *)
(* the close-comment marker and the white space have been stripped.        *)
(***************************************************************************)
EXTENDS Integers, Sequences, FiniteSets

VARIABLES
    \* ---- find_files over a repository ----
    tree,       \* the root tree object of the revision, with the work tree's files
    opts,       \* argparse.Namespace: glob_suffixes, unknown, subpaths
    pc,         \* position of find_files: "loop", "display", "unknown", "done",
                \* "failed" ("idle" when no repository is scanned)
    idx,        \* index of the subpath the loop of line 338 is at
    items,      \* everything the generator Subtree(...).walk() of this subpath yields
    pos,        \* how many of items the loop over the generator has taken
    prev,       \* find_files_one_display's prev
    out,        \* the lines printed so far
    err,        \* the exception that ended the run, "" if none
    \* ---- one File object on its own ----
    file,       \* the File object
    fpc,        \* "new", "cached", "walked", "raised"
    lic_cache,  \* the cached_property File.licenses once computed
    yielded     \* what File.walk() yielded

vars == <<tree, opts, pc, idx, items, pos, prev, out, err, file, fpc, lic_cache, yielded>>
treeVars == <<tree, opts, pc, idx, items, pos, prev, out, err>>
fileVars == <<file, fpc, lic_cache, yielded>>

---------------------------------------------------------------------------
(* Bounds of the model *)

\* a directory of the input tree holds at most MaxEntries entries
MaxEntries == 4
\* at most MaxSubpaths subpaths are given on the command line
MaxSubpaths == 2
\* a file of the single-file specification starts with at most MaxPad lines
\* that hold no SPDX marker
MaxPad == 21

---------------------------------------------------------------------------
(* Strings *)

\* The characters the model uses, in code point order.
Ascii ==
    <<"*", "-", ".", "/", "A", "B", "C", "D", "E", "F", "G", "H", "I", "J",
      "K", "L", "M", "N", "O", "P", "Q", "R", "S", "T", "U", "V", "W", "X",
      "Y", "Z", "_", "a", "b", "c", "d", "e", "f", "g", "h", "i", "j", "k",
      "l", "m", "n", "o", "p", "q", "r", "s", "t", "u", "v", "w", "x", "y",
      "z">>

ord(ch) == CHOOSE i \in 1..Len(Ascii) : Ascii[i] = ch

\* Python's s < t on str: lexicographic by code point, a proper prefix first.
RECURSIVE str_lt(_, _)
str_lt(s, t) ==
    IF t = <<>> THEN FALSE
    ELSE IF s = <<>> THEN TRUE
    ELSE IF Head(s) = Head(t) THEN str_lt(Tail(s), Tail(t))
    ELSE ord(Head(s)) < ord(Head(t))

\* Python's a < b on tuples of str.
RECURSIVE tuple_lt(_, _)
tuple_lt(a, b) ==
    IF b = <<>> THEN FALSE
    ELSE IF a = <<>> THEN TRUE
    ELSE IF Head(a) = Head(b) THEN tuple_lt(Tail(a), Tail(b))
    ELSE str_lt(Head(a), Head(b))

endswith(s, suf) ==
    /\ Len(s) >= Len(suf)
    /\ SubSeq(s, Len(s) - Len(suf) + 1, Len(s)) = suf

\* str.removesuffix
removesuffix(s, suf) ==
    IF suf # <<>> /\ endswith(s, suf) THEN SubSeq(s, 1, Len(s) - Len(suf)) ELSE s

\* str.rfind of one character, 0-based, -1 when absent
rfind(s, ch) ==
    IF \E i \in 1..Len(s) : s[i] = ch
    THEN (CHOOSE i \in 1..Len(s) : s[i] = ch /\ \A j \in (i+1)..Len(s) : s[j] # ch) - 1
    ELSE -1

\* pathlib.PurePath.suffix of a file name
path_suffix(name) ==
    LET i == rfind(name, ".")
    IN  IF 0 < i /\ i < Len(name) - 1 THEN SubSeq(name, i + 1, Len(name)) ELSE <<>>

\* fnmatch.fnmatch for patterns of literal characters, "*" and "?"
RECURSIVE fnmatch(_, _)
fnmatch(name, pat) ==
    IF pat = <<>> THEN name = <<>>
    ELSE IF Head(pat) = "*"
         THEN \/ fnmatch(name, Tail(pat))
              \/ (name # <<>> /\ fnmatch(Tail(name), pat))
    ELSE /\ name # <<>>
         /\ (Head(pat) = "?" \/ Head(name) = Head(pat))
         /\ fnmatch(Tail(name), Tail(pat))

IGNORED_FILES ==
    << <<"R", "E", "A", "D", "M", "E">>,
       <<"R", "E", "A", "D", "M", "E", ".", "*">>,
       <<"L", "I", "C", "E", "N", "S", "E", "*">>,
       <<"L", "I", "N", "G", "U", "A", "S">>,
       <<"P", "O", "T", "F", "I", "L", "E", "S", ".", "*">>,
       <<".", "g", "i", "t", "i", "g", "n", "o", "r", "e">>,
       <<".", "g", "i", "t", "a", "t", "t", "r", "i", "b", "u", "t", "e", "s">>,
       <<"*", ".", "c", "o", "n", "f">>,
       <<"*", ".", "o", "p", "t", "i", "o", "n", "s">>,
       <<"*", ".", "l", "i", "s", "t">>,
       <<"*", ".", "s", "y", "m">>,
       <<"*", ".", "t", "x", "t">>,
       <<"*", ".", "e", "x", "a", "m", "p", "l", "e">>,
       <<"*", ".", "r", "u", "l", "e", "s">>,
       <<"*", ".", "p", "k", "l", "a">>,
       <<"*", ".", "g", "p", "g">>,
       <<"*", "-", "m", "a", "p">>,
       <<"R", "F", "C", "s">> >>

\* license tokens
unknown == <<"u", "n", "k", "n", "o", "w", "n">>
binary == <<"b", "i", "n", "a", "r", "y">>
unreadable == <<"u", "n", "r", "e", "a", "d", "a", "b", "l", "e">>
MIT == <<"M", "I", "T">>
GPL == <<"G", "P", "L">>

---------------------------------------------------------------------------
(* The license extractor *)

\* a line without the SPDX marker, and a line with it
PlainLine == [spdx |-> FALSE, text |-> <<>>]
SpdxLine(token) == [spdx |-> TRUE, text |-> token]

\* line 104: the scan breaks after a line whose number exceeds this
ScanBreak == 20

None == [none |-> TRUE, text |-> <<>>]
Str(s) == [none |-> FALSE, text |-> s]

\* a slip: the empty file is not told from a file without the marker
find_license_end_unknown(n) == Str(unknown)

\* what find_license returns once its loop has ended without a match
\* (lines 106-108); n is the loop variable, 0 only if the loop never ran
find_license_end(n) == IF n = 0 THEN None ELSE Str(unknown)

\* the loop of lines 95-105 from line number n on
RECURSIVE find_license_scan(_, _)
find_license_scan(lines, n) ==
    IF n > Len(lines) THEN find_license_end(Len(lines))
    ELSE IF lines[n].spdx THEN Str(lines[n].text)
    ELSE IF n > ScanBreak THEN find_license_end(n)
    ELSE find_license_scan(lines, n + 1)

find_license(lines) == find_license_scan(lines, 1)

---------------------------------------------------------------------------
(* File *)

\* a value returned, and an exception raised
Ret(v) == [exc |-> "", val |-> v]
Raise(e) == [exc |-> e, val |-> <<>>]

\* a slip: the patterns are compared as plain names
ignored_literally(name) == \E i \in 1..Len(IGNORED_FILES) : name = IGNORED_FILES[i]

\* any(fnmatch(name, p) for p in IGNORED_FILES), line 144
ignored(name) == \E i \in 1..Len(IGNORED_FILES) : fnmatch(name, IGNORED_FILES[i])

\* A File object: its path (a sequence of names) and, under "disk", what the
\* work tree and the attributes hold for that path.
File(path, item) == [cls |-> "File", path |-> path, disk |-> item]

path_name(path) == IF path = <<>> THEN <<>> ELSE path[Len(path)]

\* disk.decodable: the text the scan reads decodes (no UnicodeDecodeError)
File_licenses(f) ==
    IF f.disk.is_symlink THEN Raise("ValueError")
    ELSE IF f.disk.generated THEN Ret(<<>>)
    ELSE IF f.disk.binary THEN Ret(<<binary>>)
    ELSE IF ~f.disk.decodable THEN Ret(<<unreadable>>)
    ELSE LET lic == find_license(f.disk.content)
         IN  IF lic.none THEN Ret(<<>>)
             ELSE IF lic.text = unknown
                     /\ ignored(removesuffix(path_name(f.path), <<".", "i", "n">>))
                  THEN Ret(<<>>)
             ELSE Ret(<<lic.text>>)

File_type(f) == "file"

File_suffix(f) == <<>>

\* the sort key of a File given its licenses
File_order(f, lics) == <<1, lics, path_name(f.path)>>

\* what walk() yields for an entry whose licenses are lics (lines 164-167,
\* 252-254)
yield_if_licensed(x, lics) == IF lics # <<>> THEN <<x>> ELSE <<>>

---------------------------------------------------------------------------
(* Subtree, SuffixGlob and the polymorphic properties of an entry *)

\* A Subtree object: its path and the tree object it wraps.
Subtree(path, item) == [cls |-> "Subtree", path |-> path, tree |-> item]

SuffixGlob(path, licenses, is_tree) ==
    [cls |-> "SuffixGlob", path |-> path, licenses |-> licenses, is_tree |-> is_tree]

\* a slip: a symlink of the tree is not passed over
entry_for_no_skip(path, item) ==
    IF item.type_str = "tree" THEN <<Subtree(Append(path, item.name), item)>>
    ELSE <<File(Append(path, item.name), item)>>

\* the object yielded for one item of the tree, <<>> for an item passed over
entry_for(path, item) ==
    IF item.type_str = "tree" THEN <<Subtree(Append(path, item.name), item)>>
    ELSE IF item.filemode = "link" THEN <<>>
    ELSE <<File(Append(path, item.name), item)>>

RECURSIVE entries_from(_, _, _)
entries_from(path, its, i) ==
    IF i > Len(its) THEN <<>>
    ELSE entry_for(path, its[i]) \o entries_from(path, its, i + 1)

Subtree_entries(s) == entries_from(s.path, s.tree.entries, 1)

\* sorted(S) for a set of strings
RECURSIVE sorted_strs(_)
sorted_strs(S) ==
    IF S = {} THEN <<>>
    ELSE LET m == CHOOSE x \in S : \A y \in S \ {x} : str_lt(x, y)
         IN  <<m>> \o sorted_strs(S \ {m})

\* itertools.chain.from_iterable over a sequence of tuples
RECURSIVE chain(_)
chain(ts) == IF ts = <<>> THEN <<>> ELSE Head(ts) \o chain(Tail(ts))

Range(s) == {s[i] : i \in 1..Len(s)}

\* a slip: the chained licenses are kept as they come, neither sorted nor
\* freed of duplicates
sorted_set_as_chained(lics) == lics

\* tuple(sorted(set(lics))), line 199
sorted_set(lics) == sorted_strs(Range(lics))

RECURSIVE licenses(_)

Subtree_licenses(s) ==
    LET es == Subtree_entries(s)
        rs == [i \in 1..Len(es) |-> licenses(es[i])]
    IN  IF \E i \in 1..Len(es) : rs[i].exc # ""
        THEN Raise(rs[CHOOSE i \in 1..Len(es) :
                          rs[i].exc # "" /\ \A j \in 1..(i-1) : rs[j].exc = ""].exc)
        ELSE Ret(sorted_set(chain([i \in 1..Len(es) |-> rs[i].val])))

licenses(x) ==
    IF x.cls = "File" THEN File_licenses(x)
    ELSE IF x.cls = "SuffixGlob" THEN Ret(x.licenses)
    ELSE Subtree_licenses(x)

\* 'tree' if len(self.licenses) > 1 else 'monotree', line 203
type_of_licenses(lics) == IF Len(lics) > 1 THEN "tree" ELSE "monotree"

Subtree_type(s) == type_of_licenses(licenses(s).val)

SuffixGlob_type(g) == IF g.is_tree THEN "tree-glob" ELSE "file-glob"

type(x) ==
    IF x.cls = "File" THEN File_type(x)
    ELSE IF x.cls = "SuffixGlob" THEN SuffixGlob_type(x)
    ELSE Subtree_type(x)

suffix(x) ==
    IF x.cls = "File" THEN File_suffix(x)
    ELSE IF x.cls = "SuffixGlob" THEN (IF x.is_tree THEN <<"/">> ELSE <<>>)
    ELSE <<"/">>

\* the sort key of a Subtree given its type and licenses
Subtree_order(s, ty, lics) ==
    <<IF ty = "monotree" THEN 1 ELSE 3, lics, path_name(s.path)>>

SuffixGlob_order(g) == <<1, g.licenses, path_name(g.path)>>

order(x) ==
    IF x.cls = "File" THEN File_order(x, licenses(x).val)
    ELSE IF x.cls = "SuffixGlob" THEN SuffixGlob_order(x)
    ELSE Subtree_order(x, Subtree_type(x), licenses(x).val)

\* Python's k1 < k2 on the keys (rank, licenses, name)
order_lt(k1, k2) ==
    \/ k1[1] < k2[1]
    \/ /\ k1[1] = k2[1]
       /\ \/ tuple_lt(k1[2], k2[2])
          \/ (k1[2] = k2[2] /\ str_lt(k1[3], k2[3]))

\* x put into the sorted sequence s behind every element that is not greater
\* (sorted is stable)
RECURSIVE insert_sorted(_, _)
insert_sorted(s, x) ==
    IF s = <<>> THEN <<x>>
    ELSE IF order_lt(order(x), order(Head(s))) THEN <<x>> \o s
    ELSE <<Head(s)>> \o insert_sorted(Tail(s), x)

\* sorted(xs, key=lambda x: x.order)
RECURSIVE sorted_by_order(_)
sorted_by_order(xs) ==
    IF xs = <<>> THEN <<>>
    ELSE insert_sorted(sorted_by_order(SubSeq(xs, 1, Len(xs) - 1)), xs[Len(xs)])

---------------------------------------------------------------------------
(* GroupSuffixes *)

has_key(by_suffix, k) == \E i \in 1..Len(by_suffix) : by_suffix[i].suffix = k

key_index(by_suffix, k) == CHOOSE i \in 1..Len(by_suffix) : by_suffix[i].suffix = k

\* self.by_suffix[k], which adds the key with an empty list when it is missing
touch(by_suffix, k) ==
    IF has_key(by_suffix, k) THEN by_suffix
    ELSE Append(by_suffix, [suffix |-> k, items |-> <<>>])

\* self.by_suffix[k].append(item)
bucket_append(by_suffix, k, item) ==
    LET d == touch(by_suffix, k)
        i == key_index(d, k)
    IN  [d EXCEPT ![i].items = Append(@, item)]

\* one round of the loop of lines 262-269
group_item(gs, item) ==
    IF type(item) = "tree"
    THEN [gs EXCEPT !.ungrouped = Append(@, item)]
    ELSE IF type(item) = "monotree"
    THEN [gs EXCEPT !.by_suffix = bucket_append(@, <<"/">>, item)]
    ELSE [gs EXCEPT !.by_suffix = bucket_append(@, path_suffix(path_name(item.path)), item)]

RECURSIVE group_items(_, _)
group_items(gs, es) ==
    IF es = <<>> THEN gs ELSE group_items(group_item(gs, Head(es)), Tail(es))

\* a slip: the monotrees stay in their bucket beside a mixed subtree
regroup_subtrees_never(gs) ==
    [by_suffix |-> touch(gs.by_suffix, <<"/">>), ungrouped |-> gs.ungrouped]

\* lines 271-274
regroup_subtrees(gs) ==
    LET d == touch(gs.by_suffix, <<"/">>)
        i == key_index(d, <<"/">>)
    IN  IF d[i].items # <<>> /\ gs.ungrouped # <<>>
        THEN [by_suffix |-> [d EXCEPT ![i].items = <<>>],
              ungrouped |-> gs.ungrouped \o d[i].items]
        ELSE [by_suffix |-> d, ungrouped |-> gs.ungrouped]

GroupSuffixes_init(es) ==
    regroup_subtrees(group_items([by_suffix |-> <<>>, ungrouped |-> <<>>], es))

\* a slip: the licenses of the items are not compared
can_group_any_license(b) ==
    /\ Cardinality({type(b.items[i]) : i \in 1..Len(b.items)}) = 1
    /\ Len(b.items) > 1
    /\ b.suffix # <<>>

\* the condition of line 287
can_group(b) ==
    /\ Cardinality({licenses(b.items[i]).val : i \in 1..Len(b.items)}) = 1
    /\ Cardinality({type(b.items[i]) : i \in 1..Len(b.items)}) = 1
    /\ Len(b.items) > 1
    /\ b.suffix # <<>>

\* items[0].path.parent / f'*{suffix}': pathlib drops a trailing slash
glob_path(b) ==
    LET parent == SubSeq(b.items[1].path, 1, Len(b.items[1].path) - 1)
    IN  Append(parent, <<"*">> \o removesuffix(b.suffix, <<"/">>))

glob_of(b) ==
    SuffixGlob(glob_path(b), licenses(b.items[1]).val, type(b.items[1]) = "monotree")

RECURSIVE walk(_, _)

RECURSIVE walk_all(_, _)
walk_all(xs, g) == IF xs = <<>> THEN <<>> ELSE walk(Head(xs), g) \o walk_all(Tail(xs), g)

\* what _walk yields for one bucket
bucket_walk(b, g) == IF can_group(b) THEN <<glob_of(b)>> ELSE walk_all(b.items, g)

RECURSIVE GroupSuffixes__walk(_, _)
GroupSuffixes__walk(by_suffix, g) ==
    IF by_suffix = <<>> THEN <<>>
    ELSE bucket_walk(Head(by_suffix), g) \o GroupSuffixes__walk(Tail(by_suffix), g)

\* the two loops of GroupSuffixes.walk
bucketed_walk(gs, g) == walk_all(sorted_by_order(GroupSuffixes__walk(gs.by_suffix, g)), g)
ungrouped_walk(gs, g) == walk_all(sorted_by_order(gs.ungrouped), g)

GroupSuffixes_walk(gs, g) == bucketed_walk(gs, g) \o ungrouped_walk(gs, g)

\* a slip: the early return of line 222 is missing
walk_below_no_return(s, ty, g) ==
    IF g THEN GroupSuffixes_walk(GroupSuffixes_init(Subtree_entries(s)), g)
    ELSE walk_all(sorted_by_order(Subtree_entries(s)), g)

\* what Subtree.walk yields after the Subtree itself
walk_below(s, ty, g) ==
    IF ty = "monotree" THEN <<>>
    ELSE IF g THEN GroupSuffixes_walk(GroupSuffixes_init(Subtree_entries(s)), g)
    ELSE walk_all(sorted_by_order(Subtree_entries(s)), g)

\* Subtree.walk with opts.glob_suffixes = g
Subtree_walk(s, g) ==
    yield_if_licensed(s, licenses(s).val) \o walk_below(s, Subtree_type(s), g)

walk(x, g) ==
    IF x.cls = "Subtree" THEN Subtree_walk(x, g)
    ELSE yield_if_licensed(x, licenses(x).val)

---------------------------------------------------------------------------
(* The renderers and find_files *)

\* what the report reads of a yielded entry
emit(x) ==
    [type |-> type(x), path |-> x.path, licenses |-> licenses(x).val,
     suffix |-> suffix(x)]

emit_all(xs) == [i \in 1..Len(xs) |-> emit(xs[i])]

\* '    ' * len(item.path.parts), as the number of spaces
indent_of(it) == 4 * Len(it.path)

\* a slip: only the licenses are compared with prev
same_as_prev_licenses_only(p, it) == p # <<>> /\ p[2] = it.licenses

\* the test of line 318
same_as_prev(p, it) == p = <<indent_of(it), it.licenses>>

\* the line printed for an entry by find_files_one_display
display_line(p, it) ==
    [indent |-> indent_of(it), name |-> path_name(it.path), suffix |-> it.suffix,
     annotated |-> ~same_as_prev(p, it),
     disp |-> IF same_as_prev(p, it) THEN <<>> ELSE it.licenses]

\* prev after the entry was printed
next_prev(p, it) == IF same_as_prev(p, it) THEN p ELSE <<indent_of(it), it.licenses>>

\* str(path)
RECURSIVE path_str(_)
path_str(path) ==
    IF path = <<>> THEN <<".">>
    ELSE IF Len(path) = 1 THEN path[1]
    ELSE path[1] \o <<"/">> \o path_str(Tail(path))

\* the condition of lines 306-307
is_unknown(it) ==
    it.type # "tree" /\ it.licenses \in {<<binary>>, <<unknown>>}

unknown_line(it) ==
    [indent |-> 0, name |-> path_str(it.path), suffix |-> it.suffix,
     annotated |-> TRUE, disp |-> it.licenses]

\* opts.subpaths or [pathlib.Path('')]
subpath_list(o) == IF o.subpaths = <<>> THEN << <<>> >> ELSE o.subpaths

has_entry(t, name) ==
    t.type_str = "tree" /\ \E i \in 1..Len(t.entries) : t.entries[i].name = name

get_entry(t, name) ==
    t.entries[CHOOSE i \in 1..Len(t.entries) : t.entries[i].name = name]

\* tree / subpath: whether the path is in the tree, and the object there
RECURSIVE path_exists(_, _)
path_exists(t, path) ==
    IF path = <<>> THEN TRUE
    ELSE IF has_entry(t, Head(path))
         THEN path_exists(get_entry(t, Head(path)), Tail(path))
    ELSE FALSE

RECURSIVE path_lookup(_, _)
path_lookup(t, path) ==
    IF path = <<>> THEN t ELSE path_lookup(get_entry(t, Head(path)), Tail(path))

\* line 339; subpath.name is empty only for the path ''
subpath_found(t, subpath) == IF subpath # <<>> THEN path_exists(t, subpath) ELSE TRUE

scanned(t, subpath) == Subtree(subpath, path_lookup(t, subpath))

cur_subpath == subpath_list(opts)[idx]

\* line 339 raises KeyError: the subpath is not in the tree
SubpathMissing ==
    /\ pc = "loop"
    /\ idx <= Len(subpath_list(opts))
    /\ ~subpath_found(tree, cur_subpath)
    /\ pc' = "failed"
    /\ err' = "KeyError"
    /\ UNCHANGED <<tree, opts, idx, items, pos, prev, out>>
    /\ UNCHANGED fileVars

\* find_files_one starts the walk, whose first step computes the licenses of
\* the whole subtree; a File that is a symlink in the work tree raises
WalkRaises ==
    /\ pc = "loop"
    /\ idx <= Len(subpath_list(opts))
    /\ subpath_found(tree, cur_subpath)
    /\ licenses(scanned(tree, cur_subpath)).exc # ""
    /\ pc' = "failed"
    /\ err' = licenses(scanned(tree, cur_subpath)).exc
    /\ UNCHANGED <<tree, opts, idx, items, pos, prev, out>>
    /\ UNCHANGED fileVars

StartWalk ==
    /\ pc = "loop"
    /\ idx <= Len(subpath_list(opts))
    /\ subpath_found(tree, cur_subpath)
    /\ licenses(scanned(tree, cur_subpath)).exc = ""
    /\ items' = emit_all(Subtree_walk(scanned(tree, cur_subpath), opts.glob_suffixes))
    /\ pos' = 0
    /\ prev' = <<>>
    /\ pc' = IF opts.unknown THEN "unknown" ELSE "display"
    /\ UNCHANGED <<tree, opts, idx, out, err>>
    /\ UNCHANGED fileVars

\* one round of the loop of find_files_one_display
DisplayItem ==
    /\ pc = "display"
    /\ pos < Len(items)
    /\ out' = Append(out, display_line(prev, items[pos + 1]))
    /\ prev' = next_prev(prev, items[pos + 1])
    /\ pos' = pos + 1
    /\ UNCHANGED <<tree, opts, pc, idx, items, err>>
    /\ UNCHANGED fileVars

\* one round of the loop of find_files_one_unknown
UnknownItem ==
    /\ pc = "unknown"
    /\ pos < Len(items)
    /\ out' = IF is_unknown(items[pos + 1])
              THEN Append(out, unknown_line(items[pos + 1])) ELSE out
    /\ pos' = pos + 1
    /\ UNCHANGED <<tree, opts, pc, idx, items, prev, err>>
    /\ UNCHANGED fileVars

\* the generator is exhausted: find_files_one returns to the loop of line 338
EndSubpath ==
    /\ pc \in {"display", "unknown"}
    /\ pos = Len(items)
    /\ idx' = idx + 1
    /\ pc' = "loop"
    /\ UNCHANGED <<tree, opts, items, pos, prev, out, err>>
    /\ UNCHANGED fileVars

\* the loop of line 338 has no subpath left
Finish ==
    /\ pc = "loop"
    /\ idx > Len(subpath_list(opts))
    /\ pc' = "done"
    /\ UNCHANGED <<tree, opts, idx, items, pos, prev, out, err>>
    /\ UNCHANGED fileVars

---------------------------------------------------------------------------
(* One File object: the cached property licenses, and walk *)

\* the first access to file.licenses (line 120): computed and cached, or raised
AccessLicenses ==
    /\ fpc = "new"
    /\ IF File_licenses(file).exc # ""
       THEN fpc' = "raised" /\ UNCHANGED lic_cache
       ELSE fpc' = "cached" /\ lic_cache' = File_licenses(file).val
    /\ UNCHANGED <<file, yielded>>
    /\ UNCHANGED treeVars

\* file.walk() (line 164), on a File whose licenses are cached or not yet
FileWalk ==
    /\ fpc \in {"new", "cached"}
    /\ LET r == IF fpc = "cached" THEN Ret(lic_cache) ELSE File_licenses(file)
       IN  IF r.exc # ""
           THEN fpc' = "raised" /\ UNCHANGED <<lic_cache, yielded>>
           ELSE /\ fpc' = "walked"
                /\ lic_cache' = r.val
                /\ yielded' = yield_if_licensed(file, r.val)
    /\ UNCHANGED file
    /\ UNCHANGED treeVars

---------------------------------------------------------------------------
(* Inputs *)

\* names
N_README == <<"R", "E", "A", "D", "M", "E">>
N_LICENSE == <<"L", "I", "C", "E", "N", "S", "E">>
N_LICENSE_custom == <<"L", "I", "C", "E", "N", "S", "E", ".", "c", "u", "s", "t", "o", "m">>
N_custom_c == <<"c", "u", "s", "t", "o", "m", ".", "c">>
N_udev_conf_in == <<"u", "d", "e", "v", ".", "c", "o", "n", "f", ".", "i", "n">>
N_main_c_in == <<"m", "a", "i", "n", ".", "c", ".", "i", "n">>
N_keyboard_map == <<"k", "e", "y", "b", "o", "a", "r", "d", "-", "m", "a", "p">>
N_gitignore == <<".", "g", "i", "t", "i", "g", "n", "o", "r", "e">>
N_Makefile == <<"M", "a", "k", "e", "f", "i", "l", "e">>
N_a == <<"a">>
N_b_c == <<"b", ".", "c">>
N_c == <<"c">>
N_d_c == <<"d", ".", "c">>
N_e_h == <<"e", ".", "h">>
N_x_c == <<"x", ".", "c">>
N_y_c == <<"y", ".", "c">>
N_z_h == <<"z", ".", "h">>
N_zz == <<"z", "z">>

\* a regular file of the revision, with its content in the work tree
blob(name, content) ==
    [name |-> name, type_str |-> "blob", filemode |-> "regular", is_symlink |-> FALSE,
     generated |-> FALSE, binary |-> FALSE, decodable |-> TRUE, content |-> content]

\* a symlink of the revision
gitlink(name) ==
    [blob(name, <<>>) EXCEPT !.filemode = "link", !.is_symlink = TRUE]

\* a regular file of the revision that is a symlink in the work tree
worklink(name) == [blob(name, <<>>) EXCEPT !.is_symlink = TRUE]

dir(name, entries) ==
    [name |-> name, type_str |-> "tree", filemode |-> "tree", entries |-> entries]

with_spdx(token) == <<SpdxLine(token)>>
without_spdx == <<PlainLine>>

\* every sequence that takes, slot by slot, one item of the slot or none, and
\* holds at most MaxEntries items; the slots are in the order git keeps a tree in
RECURSIVE slot_seqs(_, _)
slot_seqs(slots, n) ==
    IF n = 0 THEN {<<>>}
    ELSE LET shorter == slot_seqs(slots, n - 1)
         IN  shorter \cup {Append(s, it) : s \in {q \in shorter : Len(q) < MaxEntries},
                                          it \in slots[n]}

all_slot_seqs(slots) == slot_seqs(slots, Len(slots))

\* the directories under a: two files with one license or with two,
\* three files of which two can be grouped, and only an ignored README
SmallDirs ==
    { <<blob(N_x_c, with_spdx(MIT)), blob(N_y_c, with_spdx(MIT))>>,
      <<blob(N_x_c, with_spdx(MIT)), blob(N_y_c, with_spdx(GPL))>>,
      <<blob(N_x_c, with_spdx(GPL)), blob(N_y_c, with_spdx(GPL)),
        blob(N_z_h, with_spdx(MIT))>>,
      <<blob(N_README, without_spdx)>> }

RootSlots ==
    << {blob(N_Makefile, with_spdx(MIT))},
       {blob(N_README, with_spdx(MIT)), blob(N_README, without_spdx)},
       {dir(N_a, es) : es \in SmallDirs},
       {blob(N_b_c, with_spdx(MIT)), blob(N_b_c, with_spdx(GPL))},
       {dir(N_c, <<blob(N_x_c, with_spdx(MIT))>>)},
       {blob(N_d_c, with_spdx(MIT)), blob(N_d_c, without_spdx)},
       {gitlink(N_e_h), worklink(N_e_h)} >>

Roots == {dir(<<>>, es) : es \in all_slot_seqs(RootSlots)}

\* the subpaths a command line may name, and the lists of them
Subpaths == {<<N_a>>, <<N_zz>>}

RECURSIVE subpath_lists(_)
subpath_lists(n) ==
    IF n = 0 THEN {<<>>}
    ELSE LET shorter == subpath_lists(n - 1)
         IN  shorter \cup {Append(s, p) : s \in {q \in shorter : Len(q) = n - 1},
                                         p \in Subpaths}

Options ==
    [glob_suffixes : BOOLEAN, unknown : BOOLEAN, subpaths : subpath_lists(MaxSubpaths)]

\* the content of a file: up to MaxPad lines without the marker, then nothing
\* or one line with it
pad(n) == [i \in 1..n |-> PlainLine]

Contents ==
    {pad(n) : n \in 0..MaxPad} \cup {Append(pad(n), SpdxLine(MIT)) : n \in 0..MaxPad}

FileNames ==
    {N_README, N_LICENSE, N_LICENSE_custom, N_custom_c, N_udev_conf_in, N_main_c_in,
     N_keyboard_map, N_gitignore, N_Makefile}

\* a file in the work tree; bytes that do not decode need a content
DiskFiles ==
    {f \in [name : FileNames, type_str : {"blob"}, filemode : {"regular"},
            is_symlink : BOOLEAN, generated : BOOLEAN, binary : BOOLEAN,
            decodable : BOOLEAN, content : Contents] :
        f.content = <<>> => f.decodable}

NoTree == dir(<<>>, <<>>)
NoFile == File(<<>>, blob(<<>>, <<>>))

---------------------------------------------------------------------------
(* Specifications *)

\* find_files on a repository
Init ==
    /\ tree \in Roots
    /\ opts \in Options
    /\ pc = "loop"
    /\ idx = 1
    /\ items = <<>>
    /\ pos = 0
    /\ prev = <<>>
    /\ out = <<>>
    /\ err = ""
    /\ file = NoFile
    /\ fpc = "idle"
    /\ lic_cache = <<>>
    /\ yielded = <<>>

Next ==
    \/ SubpathMissing
    \/ WalkRaises
    \/ StartWalk
    \/ DisplayItem
    \/ UnknownItem
    \/ EndSubpath
    \/ Finish

Spec == Init /\ [][Next]_vars

\* one File object
InitFile ==
    /\ file \in {File(<<f.name>>, f) : f \in DiskFiles}
    /\ fpc = "new"
    /\ lic_cache = <<>>
    /\ yielded = <<>>
    /\ tree = NoTree
    /\ opts = [glob_suffixes |-> FALSE, unknown |-> FALSE, subpaths |-> <<>>]
    /\ pc = "idle"
    /\ idx = 1
    /\ items = <<>>
    /\ pos = 0
    /\ prev = <<>>
    /\ out = <<>>
    /\ err = ""

NextFile == AccessLicenses \/ FileWalk

SpecFile == InitFile /\ [][NextFile]_vars

---------------------------------------------------------------------------
(* Properties *)

\* the walk of the current subpath has been started and none of its entries is
\* taken yet; tree and items stay as they are while the entries are taken
Walking == pc \in {"display", "unknown"} /\ pos = 0

\* the Subtree that find_files_one scans for the current subpath
Scanned == scanned(tree, cur_subpath)

\* a Subtree and every Subtree beneath it
RECURSIVE subtrees_of(_)
subtrees_of(s) ==
    LET es == Subtree_entries(s)
    IN  {s} \cup UNION {subtrees_of(es[i]) : i \in {j \in 1..Len(es) : es[j].cls = "Subtree"}}

children(s) == Range(Subtree_entries(s))

lics(x) == licenses(x).val

is_prefix(p, q) == Len(p) <= Len(q) /\ SubSeq(q, 1, Len(p)) = p
beneath(p, q) == Len(p) < Len(q) /\ is_prefix(p, q)
parent(p) == SubSeq(p, 1, Len(p) - 1)

strictly_sorted(ss) == \A i, j \in 1..Len(ss) : i < j => str_lt(ss[i], ss[j])

\* the Subtree with the children of an empty license set taken out of its tree
without_empty(s) ==
    LET keep(it) == \E e \in children(s) : path_name(e.path) = it.name /\ lics(e) # <<>>
    IN  Subtree(s.path, [s.tree EXCEPT !.entries = SelectSeq(s.tree.entries, keep)])

union_correct(s) ==
    /\ Range(lics(s)) = UNION {Range(lics(e)) : e \in children(s)}
    /\ strictly_sorted(lics(s))
    /\ lics(without_empty(s)) = lics(s)
    /\ Subtree_type(without_empty(s)) = Subtree_type(s)

\* C1: the licenses of every Subtree are the sorted, duplicate-free union of
\* the licenses of its immediate children; a child with an empty license set
\* changes neither the set nor the tree/monotree kind of its parent.
C1_UnionCorrect ==
    Walking => \A s \in subtrees_of(Scanned) : union_correct(s)

\* C1 witness: a scanned Subtree with a child without licenses, two children
\* that share a license and a child with another license that sorts first
C1_Witness ==
    /\ Walking
    /\ \E s \in subtrees_of(Scanned) :
          /\ \E e \in children(s) : lics(e) = <<>>
          /\ \E e1, e2 \in children(s) : e1 # e2 /\ lics(e1) = <<MIT>> /\ lics(e2) = <<MIT>>
          /\ \E e \in children(s) : lics(e) = <<GPL>>
          /\ lics(s) = <<GPL, MIT>>

\* the entries the walk of the current subpath yields
yielded_paths == {items[i].path : i \in 1..Len(items)}

\* C2: a Subtree is a monotree exactly when it has at most one license, and
\* the walk, with or without suffix grouping, yields nothing beneath a monotree.
C2_MonotreeCollapse ==
    Walking =>
        \A s \in subtrees_of(Scanned) :
            /\ Subtree_type(s) = "monotree" <=> Len(lics(s)) <= 1
            /\ Subtree_type(s) = "tree" <=> Len(lics(s)) > 1
            /\ Len(lics(s)) <= 1 => \A q \in yielded_paths : ~beneath(s.path, q)
            /\ \A i \in 1..Len(items) :
                  items[i].path = s.path /\ items[i].suffix = <<"/">>
                  => items[i].type = Subtree_type(s)

\* C2 witness: with suffix grouping, a monotree below the scanned Subtree is
\* yielded and holds a file with a license
C2_Witness ==
    /\ Walking
    /\ opts.glob_suffixes
    /\ \E s \in subtrees_of(Scanned) :
          /\ s # Scanned
          /\ Len(lics(s)) = 1
          /\ \E e \in children(s) : lics(e) # <<>>
          /\ \E i \in 1..Len(items) : items[i].path = s.path /\ items[i].type = "monotree"

is_glob(it) == it.type \in {"file-glob", "tree-glob"}

\* the children of s that a glob named name stands for: the monotrees for
\* "*", the files with the suffix for "*<suffix>"
file_bucket(s, suf) ==
    {e \in children(s) : e.cls = "File" /\ path_suffix(path_name(e.path)) = suf}
monotree_bucket(s) ==
    {e \in children(s) : e.cls = "Subtree" /\ Len(lics(e)) <= 1}

globs_for(s, name, ty) ==
    {i \in 1..Len(items) : items[i].type = ty /\ items[i].path = Append(s.path, name)}

yielded_itself(e) ==
    \E i \in 1..Len(items) :
        /\ items[i].path = e.path
        /\ items[i].licenses = lics(e)
        /\ items[i].type = type(e)

\* a glob stands for a bucket: at least two members, all with its licenses
glob_sound(it, B) ==
    /\ Cardinality(B) >= 2
    /\ \A m \in B : lics(m) = it.licenses
    /\ \A m1, m2 \in B : type(m1) = type(m2)

\* a bucket that must not be grouped
ungroupable(B, suf) ==
    \/ Cardinality(B) = 1
    \/ suf = <<>>
    \/ \E m1, m2 \in B : lics(m1) # lics(m2) \/ type(m1) # type(m2)

file_suffixes(s) ==
    {path_suffix(path_name(e.path)) : e \in {c \in children(s) : c.cls = "File"}}

grouping_sound(s) ==
    /\ \A i \in 1..Len(items) :
          is_glob(items[i]) /\ parent(items[i].path) = s.path =>
             LET name == path_name(items[i].path)
             IN  /\ Head(name) = "*"
                 /\ IF items[i].type = "tree-glob"
                    THEN name = <<"*">> /\ glob_sound(items[i], monotree_bucket(s))
                    ELSE Tail(name) # <<>> /\ glob_sound(items[i], file_bucket(s, Tail(name)))
    /\ \A suf \in file_suffixes(s) :
          ungroupable(file_bucket(s, suf), suf) =>
             /\ globs_for(s, <<"*">> \o suf, "file-glob") = {}
             /\ \A m \in file_bucket(s, suf) : lics(m) # <<>> => yielded_itself(m)
    /\ ungroupable(monotree_bucket(s), <<"/">>) =>
          /\ globs_for(s, <<"*">>, "tree-glob") = {}
          /\ \A m \in monotree_bucket(s) : lics(m) # <<>> => yielded_itself(m)

\* C3: with suffix grouping, every SuffixGlob the walk yields has the license
\* set of every member of its bucket, whose members are of one type; a bucket
\* with two license sets or types, with one member, or of the empty suffix
\* gives no SuffixGlob, and its members are walked one by one.
C3_GroupingSound ==
    Walking /\ opts.glob_suffixes =>
        \A s \in subtrees_of(Scanned) : Len(lics(s)) > 1 => grouping_sound(s)

\* C3 witness: one walk yields a SuffixGlob for two files and walks a bucket of
\* two files with different licenses one by one
C3_Witness ==
    /\ Walking
    /\ opts.glob_suffixes
    /\ \E i \in 1..Len(items) : items[i].type = "file-glob"
    /\ \E s \in subtrees_of(Scanned) :
          /\ Len(lics(s)) > 1
          /\ \E m1, m2 \in file_bucket(s, <<".", "c">>) :
                lics(m1) # lics(m2) /\ yielded_itself(m1) /\ yielded_itself(m2)

---------------------------------------------------------------------------
(* Properties of one File *)

\* file.licenses has been computed
Computed == fpc \in {"cached", "walked"}

\* readable, not generated, not binary, and no symlink
plain_file(f) ==
    /\ ~f.disk.is_symlink
    /\ ~f.disk.generated
    /\ ~f.disk.binary
    /\ f.disk.decodable

no_spdx_line(f) == \A i \in 1..Len(f.disk.content) : ~f.disk.content[i].spdx

named(f, name) == path_name(f.path) = name

\* the File contributes lics, and walk() yields it exactly when told
contributes(contributed, shown) ==
    /\ lic_cache = contributed
    /\ fpc = "walked" => yielded = (IF shown THEN <<file>> ELSE <<>>)

\* C4 as claimed: LICENSE without an SPDX line contributes the empty set and
\* no report line, LICENSE.custom without one contributes [unknown] and a line.
C4_Original ==
    Computed /\ plain_file(file) /\ no_spdx_line(file) =>
        /\ named(file, N_LICENSE) => contributes(<<>>, FALSE)
        /\ named(file, N_LICENSE_custom) => contributes(<<unknown>>, TRUE)

\* C4 amended: LICENSE and LICENSE.custom, which matches the pattern LICENSE*,
\* both contribute the empty set and no report line when they hold no SPDX
\* line; a file that is not empty, holds no SPDX line and whose name matches
\* no ignore pattern (custom.c, Makefile, main.c.in) contributes [unknown] and
\* a report line.
C4_IgnoreList ==
    Computed /\ plain_file(file) /\ no_spdx_line(file) =>
        /\ (named(file, N_LICENSE) \/ named(file, N_LICENSE_custom))
              => contributes(<<>>, FALSE)
        /\ (/\ file.disk.content # <<>>
            /\ named(file, N_custom_c) \/ named(file, N_Makefile) \/ named(file, N_main_c_in))
              => contributes(<<unknown>>, TRUE)

\* C4 witness: LICENSE.custom, not empty and without an SPDX line, was walked
\* and yielded nothing
C4_Witness ==
    /\ fpc = "walked"
    /\ named(file, N_LICENSE_custom)
    /\ plain_file(file)
    /\ no_spdx_line(file)
    /\ file.disk.content # <<>>
    /\ yielded = <<>>

\* the names of FileNames that the ignore list covers, '.in' stripped
IgnoredNames == {N_README, N_LICENSE, N_LICENSE_custom, N_udev_conf_in, N_keyboard_map,
                 N_gitignore}

\* the marker is on none of the lines the scan reads
no_spdx_in_window(f) ==
    \A i \in 1..Len(f.disk.content) : i <= ScanBreak + 1 => ~f.disk.content[i].spdx

\* C5 as claimed: an empty file is treated like a file with lines and no SPDX
\* line: it contributes [unknown] unless its name is on the ignore list.
C5_Original ==
    Computed /\ plain_file(file) /\ file.disk.content = <<>> =>
        lic_cache = (IF path_name(file.path) \in IgnoredNames THEN <<>> ELSE <<unknown>>)

\* C5 amended: the extractor does not fail on an empty file and finds no
\* token there, so that an empty file contributes the empty license set
\* whatever its name and yields no report line; a file with lines and no SPDX
\* line among those scanned contributes [unknown] unless its name is on the
\* ignore list. Only a symlink makes File.licenses raise.
C5_EmptyFile ==
    /\ fpc = "raised" => file.disk.is_symlink
    /\ Computed /\ plain_file(file) /\ file.disk.content = <<>> => contributes(<<>>, FALSE)
    /\ Computed /\ plain_file(file) /\ file.disk.content # <<>> /\ no_spdx_in_window(file) =>
          lic_cache = (IF path_name(file.path) \in IgnoredNames THEN <<>> ELSE <<unknown>>)

\* C5 witness: an empty custom.c was walked and yielded nothing
C5_Witness ==
    /\ fpc = "walked"
    /\ named(file, N_custom_c)
    /\ plain_file(file)
    /\ file.disk.content = <<>>
    /\ lic_cache = <<>>
    /\ yielded = <<>>

---------------------------------------------------------------------------
(* Properties of the renderer *)

shown_key(it) == <<4 * Len(it.path), it.licenses>>

\* the line printed for the k-th entry of the current subpath
line_of(k) == out[Len(out) - pos + k]

\* C6: in find_files_one_display, prev is the (indent, licenses) of the line
\* printed last for this subpath, and a line is printed without its licenses
\* exactly when the line before it had the same indent and the same licenses.
C6_Dedup ==
    pc = "display" =>
        /\ prev = (IF pos = 0 THEN <<>> ELSE shown_key(items[pos]))
        /\ Len(out) >= pos
        /\ \A k \in 1..pos :
              /\ line_of(k).name = path_name(items[k].path)
              /\ line_of(k).annotated <=>
                    (k = 1 \/ shown_key(items[k - 1]) # shown_key(items[k]))
              /\ line_of(k).annotated => line_of(k).disp = items[k].licenses

\* C6 witness: a line without licenses was printed, and after it a line with
\* licenses
C6_Witness ==
    /\ pc = "display"
    /\ pos >= 3
    /\ ~line_of(pos - 1).annotated
    /\ line_of(pos).annotated

---------------------------------------------------------------------------
(* Properties of the order of the entries *)

kind_and_licenses(x) == <<type(x), lics(x)>>

\* C7 as claimed: the key (rank, licenses, name) orders the children of a
\* Subtree totally, and no entry of another (kind, licenses) lies between two
\* entries of one (kind, licenses) in the sorted sequence.
C7_Original ==
    Walking =>
        \A s \in subtrees_of(Scanned) :
            LET Q == sorted_by_order(Subtree_entries(s))
            IN  /\ \A i, j \in 1..Len(Q) : i < j => order_lt(order(Q[i]), order(Q[j]))
                /\ \A i, j, k \in 1..Len(Q) :
                      i < j /\ j < k /\ kind_and_licenses(Q[i]) = kind_and_licenses(Q[k])
                      => kind_and_licenses(Q[j]) = kind_and_licenses(Q[i])

\* C8 as claimed: when a subpath is missing the run fails before any line is
\* printed.
C8_Original == pc = "failed" /\ err = "KeyError" => out = <<>>

---------------------------------------------------------------------------
(* Properties of symlinks *)

\* the tree holds a non-directory child that is a symlink in the revision
has_link_child(s) ==
    \E i \in 1..Len(s.tree.entries) :
        s.tree.entries[i].type_str # "tree" /\ s.tree.entries[i].filemode = "link"

\* the tree holds a regular file of the revision that is a symlink on disk
has_worklink_child(s) ==
    \E i \in 1..Len(s.tree.entries) :
        /\ s.tree.entries[i].type_str # "tree"
        /\ s.tree.entries[i].filemode = "regular"
        /\ s.tree.entries[i].is_symlink

\* a tree object without the symlinks of the revision
RECURSIVE strip_links(_)
strip_links(t) ==
    LET kept == SelectSeq(t.entries, LAMBDA it : it.filemode # "link")
    IN  [t EXCEPT !.entries =
            [i \in 1..Len(kept) |->
                IF kept[i].type_str = "tree" THEN strip_links(kept[i]) ELSE kept[i]]]

\* C9 as claimed: the walk of a Subtree with a symlink child never completes
\* the aggregation; it ends in an error.
C9_Original ==
    pc \in {"display", "unknown"} => \A s \in subtrees_of(Scanned) : ~has_link_child(s)

\* C9 amended: a non-directory child that is a symlink in the revision is
\* passed over silently: the walk yields what it yields for the tree without
\* it. The aggregation ends in ValueError exactly for a child that the
\* revision holds as a regular file and the work tree as a symlink, and then
\* before a line of that subpath is printed.
C9_SymlinkSkipped ==
    /\ Walking =>
          /\ \A s \in subtrees_of(Scanned) : ~has_worklink_child(s)
          /\ items = emit_all(Subtree_walk(scanned(strip_links(tree), cur_subpath),
                                           opts.glob_suffixes))
    /\ pc = "failed" /\ err = "ValueError" =>
          /\ \E s \in subtrees_of(Scanned) : has_worklink_child(s)
          /\ idx = 1 => out = <<>>

\* C9 witness: the run over a root with a symlink child is done, with lines
\* printed
C9_Witness ==
    /\ pc = "done"
    /\ opts.subpaths = <<>>
    /\ has_link_child(Subtree(<<>>, tree))
    /\ out # <<>>

---------------------------------------------------------------------------
(* Properties of the order of the grouped walk *)

\* what the walk yields for the children of s themselves, in order
level(s) ==
    SelectSeq(items, LAMBDA it : Len(it.path) = Len(s.path) + 1 /\ is_prefix(s.path, it.path))

has_tree_child(s) == \E e \in children(s) : e.cls = "Subtree" /\ Len(lics(e)) > 1

\* the three phases of the claim
claimed_phase(it) ==
    IF it.type = "monotree" THEN 1 ELSE IF is_glob(it) THEN 2 ELSE 3

\* the two loops of GroupSuffixes.walk
loop_of(s, it) ==
    IF it.type = "tree" \/ (it.type = "monotree" /\ has_tree_child(s)) THEN 2 ELSE 1

shown_order(it) == <<IF it.type = "tree" THEN 3 ELSE 1, it.licenses, path_name(it.path)>>

\* what lies beneath a child comes behind the child, before the next child
descendants_follow(s) ==
    \A j \in 1..Len(items) :
        Len(items[j].path) > Len(s.path) + 1 /\ is_prefix(s.path, items[j].path) =>
            \E i \in 1..(j - 1) :
                /\ items[i].path = SubSeq(items[j].path, 1, Len(s.path) + 1)
                /\ \A m \in i..j : is_prefix(items[i].path, items[m].path)

===========================================================================
